---------------------------- MODULE Spec2Model ----------------------------
(***************************************************************************)
(* Model of backend.py: a sqlite table "pokemon" that create_table fills   *)
(* from a CSV file and that the get_* functions query.                     *)
(*                                                                         *)
(* A Python str is a sequence of character codes (ASCII), so that strip,   *)
(* split, lower, int, float and the ordering used by sorted are computed   *)
(* character by character.  A file is the sequence of its lines, each line *)
(* still carrying its line terminator, as iteration over a Python file     *)
(* object yields them.                                                     *)
(***************************************************************************)
EXTENDS Integers, Sequences, FiniteSets, TLC

VARIABLES pokemon, loaded, res

vars == <<pokemon, loaded, res>>

(***************************************************************************)
(* Bounds of the model.                                                    *)
(***************************************************************************)
\* Largest number of lines after the header in a generated CSV file.
MaxRows == 2

(***************************************************************************)
(* Characters and the str constants of the source.                         *)
(***************************************************************************)
\* const.SEP: the field separator of the dataset (a comma)
SEP == 44

\* 'pokemon'
s_pokemon == <<112, 111, 107, 101, 109, 111, 110>>
\* 'species_id'
s_species_id == <<115, 112, 101, 99, 105, 101, 115, 95, 105, 100>>
\* 'height'
s_height == <<104, 101, 105, 103, 104, 116>>
\* 'weight'
s_weight == <<119, 101, 105, 103, 104, 116>>
\* 'type_1'
s_type_1 == <<116, 121, 112, 101, 95, 49>>
\* 'type_2'
s_type_2 == <<116, 121, 112, 101, 95, 50>>
\* 'url_image'
s_url_image == <<117, 114, 108, 95, 105, 109, 97, 103, 101>>
\* 'generation_id'
s_generation_id == <<103, 101, 110, 101, 114, 97, 116, 105, 111, 110, 95, 105, 100>>
\* 'evolves_from_species_id'
s_evolves_from_species_id == <<101, 118, 111, 108, 118, 101, 115, 95, 102, 114, 111, 109, 95, 115, 112, 101, 99, 105, 101, 115, 95, 105, 100>>
\* 'extra': a column name that is not one of the nine
s_extra == <<101, 120, 116, 114, 97>>

\* parse_header: the list `columns`
columns == <<s_pokemon, s_species_id, s_height, s_weight, s_type_1, s_type_2,
             s_url_image, s_generation_id, s_evolves_from_species_id>>

\* The columns of CREATE TABLE pokemon (...), in order.
table_columns == <<"name", "species_id", "height", "weight", "type_1",
                   "type_2", "url_image", "generation_id",
                   "evolves_from_species_id">>

Range(s) == {s[i] : i \in 1..Len(s)}

(***************************************************************************)
(* Python built-ins used by the source.                                    *)
(***************************************************************************)
\* str.isspace for one ASCII character
is_space(c) == c \in {9, 10, 11, 12, 13, 28, 29, 30, 31, 32}

\* str.strip(): the str between its first and its last character that is
\* not whitespace
strip(s) ==
    LET keep == {i \in 1..Len(s) : ~is_space(s[i])} IN
        IF keep = {} THEN <<>>
        ELSE SubSeq(s, CHOOSE i \in keep : \A j \in keep : i <= j,
                       CHOOSE i \in keep : \A j \in keep : j <= i)

\* str.lstrip() and str.rstrip()
lstrip(s) ==
    LET keep == {i \in 1..Len(s) : ~is_space(s[i])} IN
        IF keep = {} THEN <<>>
        ELSE SubSeq(s, CHOOSE i \in keep : \A j \in keep : i <= j, Len(s))

rstrip(s) ==
    LET keep == {i \in 1..Len(s) : ~is_space(s[i])} IN
        IF keep = {} THEN <<>>
        ELSE SubSeq(s, 1, CHOOSE i \in keep : \A j \in keep : j <= i)

\* str.split(const.SEP): the fields between the separators, so that a str
\* with n separators gives n + 1 fields and the empty str one empty field
split(s) ==
    LET seps   == {i \in 1..Len(s) : s[i] = SEP}
        \* position of the k-th separator; 0 and Len(s) + 1 bracket the str
        cut(k) == IF k = 0 THEN 0
                  ELSE IF k > Cardinality(seps) THEN Len(s) + 1
                  ELSE CHOOSE i \in seps : Cardinality({j \in seps : j < i}) = k - 1
    IN  [k \in 1..(Cardinality(seps) + 1) |-> SubSeq(s, cut(k - 1) + 1, cut(k) - 1)]

\* lower left out: the str as it is
lower_none(s) == s

\* str.lower() on ASCII
lower(s) == [i \in 1..Len(s) |-> IF s[i] \in 65..90 THEN s[i] + 32 ELSE s[i]]

is_digits(s) == s # <<>> /\ \A i \in 1..Len(s) : s[i] \in 48..57

RECURSIVE digits_value(_, _)
digits_value(s, acc) ==
    IF s = <<>> THEN acc ELSE digits_value(Tail(s), 10 * acc + (Head(s) - 48))

\* the str without an optional leading sign
unsigned(t) == IF t # <<>> /\ Head(t) \in {43, 45} THEN Tail(t) ELSE t

sign_of(t) == IF t # <<>> /\ Head(t) = 45 THEN -1 ELSE 1

\* int(s): surrounding whitespace and one sign are accepted; anything that is
\* not then a run of decimal digits raises ValueError.
int_ok(s) == is_digits(unsigned(strip(s)))

int_value(s) == sign_of(strip(s)) * digits_value(unsigned(strip(s)), 0)

\* position of the decimal point in t, 0 when there is none
dot_at(t) == IF \E i \in 1..Len(t) : t[i] = 46
             THEN CHOOSE i \in 1..Len(t) : t[i] = 46 /\ \A j \in 1..(i-1) : t[j] # 46
             ELSE 0

int_part(t) == IF dot_at(t) = 0 THEN t ELSE SubSeq(t, 1, dot_at(t) - 1)

frac_part(t) == IF dot_at(t) = 0 THEN <<>> ELSE SubSeq(t, dot_at(t) + 1, Len(t))

\* float(s) on decimal notation: digits with at most one decimal point and at
\* least one digit; anything else raises ValueError.
float_ok(s) ==
    LET t == unsigned(strip(s)) IN
        /\ is_digits(int_part(t) \o frac_part(t))
        /\ \A i \in 1..Len(frac_part(t)) : frac_part(t)[i] # 46

RECURSIVE reduce_decimal(_, _)
reduce_decimal(m, e) ==
    IF e > 0 /\ m % 10 = 0 THEN reduce_decimal(m \div 10, e - 1) ELSE <<m, e>>

\* The float as the pair <<m, e>> standing for m / 10^e, in lowest form, so
\* that float('7') = float('7.0') and float('0.5') = float('.50').
float_value(s) ==
    LET t == unsigned(strip(s)) IN
        reduce_decimal(sign_of(strip(s)) * digits_value(int_part(t) \o frac_part(t), 0),
                       Len(frac_part(t)))

RECURSIVE str_lt(_, _)
\* a < b on str: lexicographic by character code
str_lt(a, b) ==
    IF b = <<>> THEN FALSE
    ELSE IF a = <<>> THEN TRUE
    ELSE IF Head(a) # Head(b) THEN Head(a) < Head(b)
    ELSE str_lt(Tail(a), Tail(b))

RECURSIVE insert_sorted(_, _)
insert_sorted(x, s) ==
    IF s = <<>> THEN <<x>>
    ELSE IF str_lt(x, Head(s)) THEN <<x>> \o s
    ELSE <<Head(s)>> \o insert_sorted(x, Tail(s))

RECURSIVE sorted(_)
\* sorted(ell) on a list of str: a stable ascending sort
sorted(ell) ==
    IF ell = <<>> THEN <<>>
    ELSE insert_sorted(ell[Len(ell)], sorted(SubSeq(ell, 1, Len(ell) - 1)))

RECURSIVE insert_sorted_int(_, _)
insert_sorted_int(x, s) ==
    IF s = <<>> THEN <<x>>
    ELSE IF x < Head(s) THEN <<x>> \o s
    ELSE <<Head(s)>> \o insert_sorted_int(x, Tail(s))

RECURSIVE sorted_int(_)
\* sorted(ell) on a list of int
sorted_int(ell) ==
    IF ell = <<>> THEN <<>>
    ELSE insert_sorted_int(ell[Len(ell)], sorted_int(SubSeq(ell, 1, Len(ell) - 1)))

RECURSIVE sorted_set(_)
\* sorted(S) on a set S of str
sorted_set(S) ==
    IF S = {} THEN <<>>
    ELSE LET m == CHOOSE x \in S : \A y \in S : ~str_lt(y, x)
         IN <<m>> \o sorted_set(S \ {m})

(***************************************************************************)
(* parse_header and create_table.                                          *)
(***************************************************************************)
\* f.readline(): the first line, or the empty str at end of file
readline(f) == IF f = <<>> THEN <<>> ELSE Head(f)

\* the lines `for line in f` yields once the header has been read
rest_lines(f) == IF f = <<>> THEN <<>> ELSE Tail(f)

\* list.index(x): 0-based position of the first occurrence (x is in the list)
index(list, x) ==
    (CHOOSE i \in 1..Len(list) : list[i] = x /\ \A j \in 1..(i-1) : list[j] # x) - 1

\* parse_header(f): the dict column name -> index, or the ValueError that
\* header.index raises for a column name that is not in the header.
parse_header(f) ==
    LET header == split(strip(readline(f))) IN
        IF \E c \in Range(columns) : c \notin Range(header)
        THEN [exc |-> "ValueError", dict |-> <<>>]
        ELSE [exc |-> "none",
              dict |-> [c \in Range(columns) |-> index(header, c)]]

\* the reads with type_1 taken from the type_2 column and type_2 from type_1
reads_types_swapped ==
    << <<s_pokemon, "lower">>, <<s_species_id, "int">>,
       <<s_height, "float">>, <<s_weight, "float">>,
       <<s_type_2, "lower">>, <<s_type_1, "lower">>,
       <<s_url_image, "lower">>, <<s_generation_id, "int">>,
       <<s_evolves_from_species_id, "lower">> >>

\* The nine reads of one line in create_table, in the order of the code:
\* the header name that locates the value, and the conversion applied to it.
reads == << <<s_pokemon, "lower">>, <<s_species_id, "int">>,
            <<s_height, "float">>, <<s_weight, "float">>,
            <<s_type_1, "lower">>, <<s_type_2, "lower">>,
            <<s_url_image, "lower">>, <<s_generation_id, "int">>,
            <<s_evolves_from_species_id, "lower">> >>

\* The exception the k-th read of a line raises, "none" if it succeeds:
\* line[i] raises IndexError, int() and float() raise ValueError.
read_exc(line, header_dict, k) ==
    LET i == header_dict[reads[k][1]] IN
        IF i >= Len(line) THEN "IndexError"
        ELSE IF reads[k][2] = "int" /\ ~int_ok(line[i + 1]) THEN "ValueError"
        ELSE IF reads[k][2] = "float" /\ ~float_ok(line[i + 1]) THEN "ValueError"
        ELSE "none"

\* The value the k-th read of a line produces.
read_value(line, header_dict, k) ==
    LET v == line[header_dict[reads[k][1]] + 1] IN
        IF reads[k][2] = "int" THEN int_value(v)
        ELSE IF reads[k][2] = "float" THEN float_value(v)
        ELSE lower(v)

\* One iteration of `for line in f`: the exception of the first read that
\* fails, or the row that cur.execute(query, [...]) inserts.
insert_of(raw, header_dict) ==
    LET line == split(strip(raw))
        bad  == {k \in 1..Len(reads) : read_exc(line, header_dict, k) # "none"}
    IN  IF bad # {}
        THEN [exc |-> read_exc(line, header_dict,
                               CHOOSE k \in bad : \A j \in bad : k <= j),
              row |-> <<>>]
        ELSE [exc |-> "none",
              row |-> [name                    |-> read_value(line, header_dict, 1),
                       species_id              |-> read_value(line, header_dict, 2),
                       height                  |-> read_value(line, header_dict, 3),
                       weight                  |-> read_value(line, header_dict, 4),
                       type_1                  |-> read_value(line, header_dict, 5),
                       type_2                  |-> read_value(line, header_dict, 6),
                       url_image               |-> read_value(line, header_dict, 7),
                       generation_id           |-> read_value(line, header_dict, 8),
                       evolves_from_species_id |-> read_value(line, header_dict, 9)]]

RECURSIVE insert_lines(_, _, _)
\* The loop `for line in f`: inserts until a line raises.
insert_lines(lines, header_dict, rows) ==
    IF lines = <<>> THEN [exc |-> "none", rows |-> rows]
    ELSE LET ins == insert_of(Head(lines), header_dict) IN
             IF ins.exc # "none" THEN [exc |-> ins.exc, rows |-> rows]
             ELSE insert_lines(Tail(lines), header_dict, Append(rows, ins.row))

\* CREATE TABLE IF NOT EXISTS without the DROP: the rows stay
create_if_not_exists(db) ==
    [exists |-> TRUE, columns |-> table_columns, rows |-> db.rows]

\* DROP TABLE IF EXISTS pokemon; CREATE TABLE pokemon (...)
drop_and_create(db) ==
    [exists |-> TRUE, columns |-> table_columns, rows |-> <<>>]

(***************************************************************************)
(* The CSV files the model loads.                                          *)
(***************************************************************************)
\* Column names a header may carry: the nine, then one that is ignored.
header_names == columns \o <<s_extra>>

\* Field values of a line, in the order of header_names.
\*   Ab,1,7,.5,F,,U,1,,x
Row1 == <<<<65, 98>>, <<49>>, <<55>>, <<46, 53>>, <<70>>, <<>>, <<85>>,
          <<49>>, <<>>, <<120>>>>
\*   " aB",2,1.0,2,f,F,u,2,"X ",x   (whitespace before the name and after
\*   evolves_from_species_id)
Row2 == <<<<32, 97, 66>>, <<50>>, <<49, 46, 48>>, <<50>>, <<102>>, <<70>>,
          <<117>>, <<50>>, <<88, 32>>, <<120>>>>
\*   Ab,1,7,.5,F,,U,x,,x   (generation_id is not a number)
RowBadNumber == <<<<65, 98>>, <<49>>, <<55>>, <<46, 53>>, <<70>>, <<>>, <<85>>,
                  <<120>>, <<>>, <<120>>>>

ValidRows == {Row1, Row2}

\* What a line after the header can be.  On the last two create_table
\* raises: a row with a bad number, and (no values) a blank line.
LineKinds == <<Row1, Row2, RowBadNumber, <<>>>>

ValidKinds == {k \in 1..Len(LineKinds) : LineKinds[k] \in ValidRows}

FailingKinds == (1..Len(LineKinds)) \ ValidKinds

\* Positions of header_names that a header lists, in header order.
LayoutSource == <<1, 2, 3, 4, 5, 6, 7, 8, 9>>
LayoutPermuted == <<2, 10, 4, 3, 6, 5, 7, 8, 9, 1>>
LayoutMissing == <<1, 2, 3, 4, 5, 6, 7, 8>>

Layout(name) ==
    CASE name = "source"   -> LayoutSource
      [] name = "permuted" -> LayoutPermuted
      [] name = "missing"  -> LayoutMissing

RECURSIVE join(_)
\* const.SEP.join(fields)
join(fields) ==
    IF Len(fields) = 0 THEN <<>>
    ELSE IF Len(fields) = 1 THEN fields[1]
    ELSE fields[1] \o <<SEP>> \o join(Tail(fields))

\* The text line that carries the values `values` under a layout, with its
\* line terminator.
TextLine(layout, values) ==
    join([i \in 1..Len(layout) |-> values[layout[i]]]) \o <<10>>

\* A line that carries no values: only its line terminator.
BlankLine == <<10>>

RenderLine(layout, values) ==
    IF values = <<>> THEN BlankLine ELSE TextLine(layout, values)

ValidSeqs(n) == UNION {[1..k -> ValidKinds] : k \in 0..n}

\* The lines after the header: up to MaxRows of them.  The loop of
\* create_table stops at the first line that raises and reads nothing after
\* it, so a line that raises is generated as the last line only.
LineSeqs ==
    ValidSeqs(MaxRows) \cup
    {Append(ls, k) : ls \in ValidSeqs(MaxRows - 1), k \in FailingKinds}

\* The csv_filename values: a file is named by the layout of its header and
\* the kinds of its lines.  Every sequence of lines comes under the two
\* complete headers; one file has a header that lacks a column, one file
\* has no line at all.
FileNames ==
    ({"source", "permuted"} \X LineSeqs)
    \cup {<<"missing", <<1>>>>, <<"empty", <<>>>>}

\* The function f, computed once for its whole domain.
Table(f) == f @@ <<>>

\* open(csv_filename): the lines of the file, the header line first.
open ==
    Table([n \in FileNames |->
        IF n[1] = "empty" THEN <<>>
        ELSE <<TextLine(Layout(n[1]), header_names)>> \o
             [i \in 1..Len(n[2]) |-> RenderLine(Layout(n[1]), LineKinds[n[2][i]])]])

\* The body of `with open(csv_filename) as f:` for each file: the rows it
\* inserts, in order, and the exception it raises ("none" if it completes).
with_open ==
    Table([n \in FileNames |->
        LET f  == open[n]
            hd == parse_header(f)
        IN  IF hd.exc # "none" THEN [exc |-> hd.exc, rows |-> <<>>]
            ELSE insert_lines(rest_lines(f), hd.dict, <<>>)])

\* create_table with the header parsed before the table is dropped: a header
\* that raises leaves the table as it was
create_table_parse_first(db, csv_filename) ==
    LET fresh == drop_and_create(db)
        out   == with_open[csv_filename]
    IN  IF parse_header(open[csv_filename]).exc # "none"
        THEN [exc |-> out.exc, db |-> db]
        ELSE [exc |-> out.exc,
              db |-> [fresh EXCEPT !.rows = fresh.rows \o out.rows]]

\* create_table(csv_filename, con, cur) on the table db: the table it leaves
\* and the exception it raises ("none" if it returns).
create_table_on(db, csv_filename) ==
    LET fresh == drop_and_create(db)
        out   == with_open[csv_filename]
    IN  [exc |-> out.exc, db |-> [fresh EXCEPT !.rows = fresh.rows \o out.rows]]

(***************************************************************************)
(* The queries, as functions of the table db.  Each gives the exception    *)
(* raised ("none" if the call returns) and the value returned.  A query of *)
(* a table that does not exist raises sqlite3.OperationalError.            *)
(***************************************************************************)
Raise(e) == [exc |-> e, val |-> <<>>]

Return(v) == [exc |-> "none", val |-> v]

\* table_exists without the fetchone: true as soon as the SELECT runs
table_exists_no_fetch(db) ==
    IF ~db.exists THEN Return(FALSE)
    ELSE Return(TRUE)

\* table_exists(cur)
table_exists(db) ==
    IF ~db.exists THEN Return(FALSE)
    ELSE Return(db.rows # <<>>)

\* get_pokemon_names with the names made unique before they are sorted
get_pokemon_names_unique(db) ==
    IF ~db.exists THEN Raise("OperationalError")
    ELSE Return(sorted_set({db.rows[i].name : i \in 1..Len(db.rows)}))

\* get_pokemon_names(cur)
get_pokemon_names(db) ==
    IF ~db.exists THEN Raise("OperationalError")
    ELSE LET new_list == [i \in 1..Len(db.rows) |-> db.rows[i].name]
         IN  Return(sorted(new_list))

\* get_pokemon_ids(cur)
get_pokemon_ids(db) ==
    IF ~db.exists THEN Raise("OperationalError")
    ELSE LET new_list == [i \in 1..Len(db.rows) |-> db.rows[i].species_id]
         IN  Return(sorted_int(new_list))

\* The tuple SELECT name, species_id, ..., evolves_from_species_id gives.
stats(r) == <<r.name, r.species_id, r.height, r.weight, r.type_1, r.type_2,
              r.url_image, r.generation_id, r.evolves_from_species_id>>

\* get_stats_by_name with a comparison that ignores case
get_stats_by_name_nocase(name, db) ==
    IF ~db.exists THEN {Raise("OperationalError")}
    ELSE LET data == {i \in 1..Len(db.rows) : db.rows[i].name = lower(name)}
         IN  IF data = {} THEN {Raise("IndexError")}
             ELSE {Return(stats(db.rows[i])) : i \in data}

\* get_stats_by_name(name, cur): the outcomes it can have.  The SELECT has no
\* ORDER BY, so data[0] is any one of the rows that match.
get_stats_by_name(name, db) ==
    IF ~db.exists THEN {Raise("OperationalError")}
    ELSE LET data == {i \in 1..Len(db.rows) : db.rows[i].name = name}
         IN  IF data = {} THEN {Raise("IndexError")}
             ELSE {Return(stats(db.rows[i])) : i \in data}

\* get_stats_by_id(species_id, cur): the outcomes it can have.
get_stats_by_id(species_id, db) ==
    IF ~db.exists THEN {Raise("OperationalError")}
    ELSE LET data == {i \in 1..Len(db.rows) : db.rows[i].species_id = species_id}
         IN  IF data = {} THEN {Raise("IndexError")}
             ELSE {Return(stats(db.rows[i])) : i \in data}

\* unique_and_sort without the set: sorted only
sort_only(ell) == sorted(ell)

\* unique_and_sort(ell)
unique_and_sort(ell) == sorted_set(Range(ell))

RECURSIVE append_new(_, _)
\* `if element not in new_list: new_list.append(element)` over a list
append_new(new_list, elements) ==
    IF elements = <<>> THEN new_list
    ELSE IF Head(elements) \in Range(new_list)
         THEN append_new(new_list, Tail(elements))
         ELSE append_new(Append(new_list, Head(elements)), Tail(elements))

RECURSIVE types_of_first(_, _)
\* the loops of get_pokemon_types reading type_1 only
types_of_first(data, new_list) ==
    IF data = <<>> THEN new_list
    ELSE types_of_first(Tail(data), append_new(new_list, <<Head(data).type_1>>))

RECURSIVE types_of(_, _)
\* the two nested loops of get_pokemon_types over the rows `data`
types_of(data, new_list) ==
    IF data = <<>> THEN new_list
    ELSE types_of(Tail(data),
                  append_new(new_list, <<Head(data).type_1, Head(data).type_2>>))

\* get_pokemon_types(cur)
get_pokemon_types(db) ==
    IF ~db.exists THEN Raise("OperationalError")
    ELSE Return(unique_and_sort(types_of(db.rows, <<>>)))

\* the rows of SELECT ... WHERE type_1 = (?) OR type_2 = (?)
of_type(r, pokemon_type) == r.type_1 = pokemon_type \/ r.type_2 = pokemon_type

\* get_pokemon_by_type(pokemon_type, cur)
get_pokemon_by_type(pokemon_type, db) ==
    IF ~db.exists THEN Raise("OperationalError")
    ELSE LET data == SelectSeq(db.rows, LAMBDA r : of_type(r, pokemon_type))
             new_list == [i \in 1..Len(data) |-> data[i].name]
         IN  Return(unique_and_sort(new_list))

(***************************************************************************)
(* Arguments of the queries.                                               *)
(***************************************************************************)
\* 'z': a name and a type that no row carries
s_absent == <<122>>

\* The names of the rows as the file spells them and lower-cased, with and
\* without the whitespace at either end.
QueryNames ==
    {s_absent, Row1[1]} \cup
    UNION {{lower(v[1]), lower(lstrip(v[1])), lower(rstrip(v[1]))} :
             v \in ValidRows}

QueryTypes ==
    {s_absent} \cup UNION {{lower(v[5]), lower(v[6])} : v \in ValidRows}

\* int(v[2]) for the rows v, and an id that no row carries
QueryIds == {1, 2, 3}

(***************************************************************************)
(* The state machine.                                                      *)
(*   pokemon  the table as the connection sees it                          *)
(*   loaded   the last call of create_table: its csv_filename, the         *)
(*            exception it raised, whether the table held rows when it was *)
(*            called, and the exception of the call before it              *)
(*   res      the last call: function, argument, exception, return value   *)
(***************************************************************************)
Init ==
    /\ pokemon = [exists |-> FALSE, columns |-> <<>>, rows |-> <<>>]
    /\ loaded = [file |-> <<"empty", <<>>>>, exc |-> "never", had |-> FALSE,
                 prev |-> "never"]
    /\ res = [op |-> "get_con_cur", arg |-> <<>>, exc |-> "none", val |-> <<>>]

Result(op, arg, out) == [op |-> op, arg |-> arg, exc |-> out.exc, val |-> out.val]

\* create_table(csv_filename, con, cur).  The con.commit() that ends it
\* makes the rows durable; it changes nothing of what the connection reads,
\* which sees its own inserts whether or not they are committed.
create_table ==
    \E csv_filename \in FileNames :
        LET out == create_table_on(pokemon, csv_filename) IN
            /\ pokemon' = out.db
            /\ loaded' = [file |-> csv_filename, exc |-> out.exc,
                          had |-> pokemon.rows # <<>>, prev |-> loaded.exc]
            /\ res' = [op |-> "create_table", arg |-> <<>>, exc |-> out.exc,
                       val |-> <<>>]

call_table_exists ==
    /\ res' = Result("table_exists", <<>>, table_exists(pokemon))
    /\ UNCHANGED <<pokemon, loaded>>

call_get_pokemon_names ==
    /\ res' = Result("get_pokemon_names", <<>>, get_pokemon_names(pokemon))
    /\ UNCHANGED <<pokemon, loaded>>

call_get_pokemon_ids ==
    /\ res' = Result("get_pokemon_ids", <<>>, get_pokemon_ids(pokemon))
    /\ UNCHANGED <<pokemon, loaded>>

call_get_stats_by_name ==
    \E name \in QueryNames :
        \E out \in get_stats_by_name(name, pokemon) :
            /\ res' = Result("get_stats_by_name", name, out)
            /\ UNCHANGED <<pokemon, loaded>>

call_get_stats_by_id ==
    \E species_id \in QueryIds :
        \E out \in get_stats_by_id(species_id, pokemon) :
            /\ res' = Result("get_stats_by_id", species_id, out)
            /\ UNCHANGED <<pokemon, loaded>>

call_get_pokemon_types ==
    /\ res' = Result("get_pokemon_types", <<>>, get_pokemon_types(pokemon))
    /\ UNCHANGED <<pokemon, loaded>>

call_get_pokemon_by_type ==
    \E pokemon_type \in QueryTypes :
        /\ res' = Result("get_pokemon_by_type", pokemon_type,
                         get_pokemon_by_type(pokemon_type, pokemon))
        /\ UNCHANGED <<pokemon, loaded>>

Next ==
    \/ create_table
    \/ call_table_exists
    \/ call_get_pokemon_names
    \/ call_get_pokemon_ids
    \/ call_get_stats_by_name
    \/ call_get_stats_by_id
    \/ call_get_pokemon_types
    \/ call_get_pokemon_by_type

Spec == Init /\ [][Next]_vars


(***************************************************************************)
(* What the file says, stated without create_table.                        *)
(***************************************************************************)
NineColumns == {"name", "species_id", "height", "weight", "type_1", "type_2",
                "url_image", "generation_id", "evolves_from_species_id"}

\* number of lines after the header
DataRows(f) == IF f = <<>> THEN 0 ELSE Len(f) - 1

\* the line without its line terminator
Chomp(line) ==
    IF line # <<>> /\ line[Len(line)] = 10 THEN SubSeq(line, 1, Len(line) - 1)
    ELSE line

\* 1-based position of the first field of `names` that equals c
PositionOf(names, c) ==
    CHOOSE k \in 1..Len(names) : names[k] = c /\ \A j \in 1..(k-1) : names[j] # c

\* The field of data row i under the header name c, the lines being taken
\* with the whitespace at both ends removed.
FieldRead(f, i, c) ==
    split(strip(f[i + 1]))[PositionOf(split(strip(f[1])), c)]

\* The same field, the lines being taken exactly as written.
FieldWritten(f, i, c) ==
    split(Chomp(f[i + 1]))[PositionOf(split(Chomp(f[1])), c)]

\* The record of the nine normalized values: strings lower-cased, numeric
\* columns coerced.
Normalized(Field(_)) ==
    [name                    |-> lower(Field(s_pokemon)),
     species_id              |-> int_value(Field(s_species_id)),
     height                  |-> float_value(Field(s_height)),
     weight                  |-> float_value(Field(s_weight)),
     type_1                  |-> lower(Field(s_type_1)),
     type_2                  |-> lower(Field(s_type_2)),
     url_image               |-> lower(Field(s_url_image)),
     generation_id           |-> int_value(Field(s_generation_id)),
     evolves_from_species_id |-> lower(Field(s_evolves_from_species_id))]

RecordRead(f, i) == Normalized(LAMBDA c : FieldRead(f, i, c))

RecordWritten(f, i) == Normalized(LAMBDA c : FieldWritten(f, i, c))

HeaderComplete(f) ==
    f # <<>> /\ \A c \in Range(columns) : c \in Range(split(strip(f[1])))

IsBlank(line) == strip(line) = <<>>

\* Data row i carries a value under every header name, numbers where
\* numbers are required.
RowComplete(f, i) ==
    /\ Len(split(strip(f[i + 1]))) >= Len(split(strip(f[1])))
    /\ int_ok(FieldRead(f, i, s_species_id))
    /\ int_ok(FieldRead(f, i, s_generation_id))
    /\ float_ok(FieldRead(f, i, s_height))
    /\ float_ok(FieldRead(f, i, s_weight))

\* A valid CSV: a complete header, every line after it a complete row.
ValidCsv(f) ==
    HeaderComplete(f) /\ \A i \in 1..DataRows(f) : RowComplete(f, i)

IsLowerCase(s) == \A i \in 1..Len(s) : s[i] \notin 65..90

NonDecreasing(s) == \A i \in 1..(Len(s) - 1) : ~str_lt(s[i + 1], s[i])

StrictlyAscending(s) == \A i \in 1..(Len(s) - 1) : str_lt(s[i], s[i + 1])

Failed(exc) == exc \notin {"none", "never"}

\* For each file that is a valid CSV: the records of its data rows, in file
\* order (no record for any other file).
Records ==
    Table([n \in FileNames |->
        IF ValidCsv(open[n])
        THEN [i \in 1..DataRows(open[n]) |-> RecordRead(open[n], i)]
        ELSE <<>>])

\* The same, the lines being taken exactly as written.
RecordsWritten ==
    Table([n \in FileNames |->
        IF ValidCsv(open[n])
        THEN [i \in 1..DataRows(open[n]) |-> RecordWritten(open[n], i)]
        ELSE <<>>])

\* For each file with a complete header: the records of the complete data
\* rows that come before the first line that is not one.
RecordsBeforeFailure ==
    Table([n \in FileNames |->
        IF ~HeaderComplete(open[n]) THEN <<>>
        ELSE LET good == {k \in 0..DataRows(open[n]) :
                            \A i \in 1..k : RowComplete(open[n], i)}
                 last == CHOOSE k \in good : \A j \in good : j <= k
             IN  [i \in 1..last |-> RecordRead(open[n], i)]])

IsValid == Table([n \in FileNames |-> ValidCsv(open[n])])

\* The failure the specification names for each file: SchemaError for a
\* header that lacks a required column, ParseError for a row that carries
\* every value but one that is not a number where a number is required.
ListedFailure ==
    Table([n \in FileNames |->
        LET f == open[n] IN
            IF ~HeaderComplete(f) THEN "SchemaError"
            ELSE IF \E i \in 1..DataRows(f) :
                       /\ Len(split(strip(f[i + 1]))) >= Len(split(strip(f[1])))
                       /\ ~RowComplete(f, i)
                 THEN "ParseError"
                 ELSE "none"])

\* For each file with a complete header whose lines are all complete rows
\* or blank: the number of its lines that are not blank; -1 for any other.
NonBlankRows ==
    Table([n \in FileNames |->
        LET f == open[n] IN
            IF /\ HeaderComplete(f)
               /\ \A i \in 1..DataRows(f) : IsBlank(f[i + 1]) \/ RowComplete(f, i)
            THEN Cardinality({i \in 1..DataRows(f) : ~IsBlank(f[i + 1])})
            ELSE -1])

IsPrefix(s, t) == Len(s) <= Len(t) /\ s = SubSeq(t, 1, Len(s))

\* the text of the file of the last call of create_table
Csv == open[loaded.file]

(***************************************************************************)
(* C1.  create_table fully replaces the table: after any earlier calls, a  *)
(* call that returns leaves exactly the records of its file, one per data  *)
(* row in file order, so the table is a function of the last file alone:   *)
(* loading a file twice leaves what loading it once leaves.                *)
(***************************************************************************)
C1_LoadReplaces ==
    loaded.exc = "none" =>
        /\ pokemon.exists
        /\ IsValid[loaded.file]
        /\ Len(pokemon.rows) = DataRows(Csv)
        /\ pokemon.rows = Records[loaded.file]

\* a file loaded over a table that an earlier successful load had filled
C1_Witness ==
    /\ loaded.exc = "none"
    /\ loaded.prev = "none"
    /\ loaded.had
    /\ pokemon.rows # <<>>
    /\ res.op = "create_table"

(***************************************************************************)
(* C2.  table_exists returns true iff the table exists and holds at least  *)
(* one row; when the table was never created it returns false and raises   *)
(* nothing.                                                                *)
(***************************************************************************)
C2_ExistsIffNonEmpty ==
    res.op = "table_exists" =>
        /\ res.exc = "none"
        /\ res.val = (pokemon.exists /\ Len(pokemon.rows) >= 1)

\* table_exists called on a store that was never loaded
C2_Witness ==
    /\ res.op = "table_exists"
    /\ loaded.exc = "never"
    /\ ~pokemon.exists
    /\ res.val = FALSE


\* the tuple of the nine values of a record, in the order of the record model
AsTuple(r) == <<r.name, r.species_id, r.height, r.weight, r.type_1, r.type_2,
                r.url_image, r.generation_id, r.evolves_from_species_id>>

(***************************************************************************)
(* C3 as claimed.  After a successful load, get_stats_by_name called with  *)
(* the lower-cased name of any data row, the name being the field as the   *)
(* file writes it, returns a record with that name and the normalized      *)
(* values of one row of that name, located by header name.                 *)
(***************************************************************************)
C3_RoundTripAsWritten ==
    ( /\ res.op = "get_stats_by_name"
      /\ loaded.exc = "none"
      /\ \E i \in DOMAIN RecordsWritten[loaded.file] :
             res.arg = RecordsWritten[loaded.file][i].name )
    => /\ res.exc = "none"
       /\ res.val[1] = res.arg
       /\ \E j \in DOMAIN RecordsWritten[loaded.file] :
              res.val = AsTuple(RecordsWritten[loaded.file][j])

(***************************************************************************)
(* C3 as amended.  After a successful load, get_stats_by_name called with  *)
(* the lower-cased name of any data row, the name being the field of the   *)
(* line once the whitespace at both ends of the line is removed, returns a *)
(* record with that name and the normalized values (of the line so         *)
(* trimmed) of one row of that name, located by header name whatever the   *)
(* order of the header.                                                    *)
(***************************************************************************)
C3_RoundTrip ==
    ( /\ res.op = "get_stats_by_name"
      /\ loaded.exc = "none"
      /\ \E i \in DOMAIN Records[loaded.file] :
             res.arg = Records[loaded.file][i].name )
    => /\ res.exc = "none"
       /\ res.val[1] = res.arg
       /\ \E j \in DOMAIN Records[loaded.file] :
              res.val = AsTuple(Records[loaded.file][j])

\* a row found by name in a file whose header is not in the order of the
\* code's column list and carries an extra column
C3_Witness ==
    /\ res.op = "get_stats_by_name"
    /\ res.exc = "none"
    /\ loaded.exc = "none"
    /\ loaded.file[1] = "permuted"
    /\ res.val[5] # res.val[6]
    /\ res.val[3] # res.val[4]

(***************************************************************************)
(* C4.  get_stats_by_name with a name that no row of the existing table    *)
(* carries (an empty table, a name in another casing than the stored one)  *)
(* raises IndexError, its not-found failure, and leaves the table as it    *)
(* was; so does get_stats_by_id with a species_id that no row carries.     *)
(***************************************************************************)
C4_NotFound ==
    [][ ( \/ /\ res'.op = "get_stats_by_name"
             /\ pokemon.exists
             /\ \A i \in 1..Len(pokemon.rows) : pokemon.rows[i].name # res'.arg
          \/ /\ res'.op = "get_stats_by_id"
             /\ pokemon.exists
             /\ \A i \in 1..Len(pokemon.rows) :
                    pokemon.rows[i].species_id # res'.arg )
        => /\ res'.exc = "IndexError"
           /\ pokemon' = pokemon ]_vars

\* a name queried in another casing than the one a stored row carries
C4_Witness ==
    /\ res.op = "get_stats_by_name"
    /\ res.exc = "IndexError"
    /\ \E i \in 1..Len(pokemon.rows) :
           /\ pokemon.rows[i].name # res.arg
           /\ pokemon.rows[i].name = lower(res.arg)

(***************************************************************************)
(* C5.  After a successful load, get_pokemon_names returns the names in    *)
(* non-decreasing lexicographic order, as many as the file has data rows,  *)
(* each name as many times as rows carry it.                               *)
(***************************************************************************)
C5_NamesSorted ==
    (res.op = "get_pokemon_names" /\ loaded.exc = "none")
    => /\ res.exc = "none"
       /\ NonDecreasing(res.val)
       /\ Len(res.val) = DataRows(Csv)
       /\ \A n \in Range(res.val) \cup {r.name : r \in Range(pokemon.rows)} :
              Cardinality({i \in 1..Len(res.val) : res.val[i] = n})
              = Cardinality({i \in 1..Len(pokemon.rows) : pokemon.rows[i].name = n})

\* two rows of the same name, both listed
C5_Witness ==
    /\ res.op = "get_pokemon_names"
    /\ loaded.exc = "none"
    /\ Len(res.val) >= 2
    /\ res.val[1] = res.val[2]

(***************************************************************************)
(* C6.  get_pokemon_types returns exactly the type_1 and type_2 values of  *)
(* the rows, the empty str included, each once, in strictly ascending      *)
(* order; nothing for an empty table.                                      *)
(***************************************************************************)
C6_TypesUnion ==
    (res.op = "get_pokemon_types" /\ pokemon.exists)
    => /\ res.exc = "none"
       /\ StrictlyAscending(res.val)
       /\ Range(res.val) = {r.type_1 : r \in Range(pokemon.rows)}
                           \cup {r.type_2 : r \in Range(pokemon.rows)}

\* the empty type_2 of one row listed before the type that two rows share
C6_Witness ==
    /\ res.op = "get_pokemon_types"
    /\ Len(pokemon.rows) >= 2
    /\ Len(res.val) = 2
    /\ res.val[1] = <<>>

(***************************************************************************)
(* C7.  get_pokemon_by_type(t) returns exactly the names of the rows with  *)
(* type_1 = t or type_2 = t, each name once, in ascending order; nothing,  *)
(* and no exception, for a type that no row carries.                       *)
(***************************************************************************)
C7_ByType ==
    (res.op = "get_pokemon_by_type" /\ pokemon.exists)
    => /\ res.exc = "none"
       /\ StrictlyAscending(res.val)
       /\ Range(res.val) =
              {r.name : r \in {x \in Range(pokemon.rows) :
                                 x.type_1 = res.arg \/ x.type_2 = res.arg}}

\* two rows of the type that share their name: the name is listed once
C7_Witness ==
    /\ res.op = "get_pokemon_by_type"
    /\ Len(res.val) = 1
    /\ Cardinality({i \in 1..Len(pokemon.rows) :
                      pokemon.rows[i].type_1 = res.arg
                      \/ pokemon.rows[i].type_2 = res.arg}) >= 2

(***************************************************************************)
(* C8.  In every state in which the table exists it has exactly the nine   *)
(* columns of the record model, and the five string fields of every row    *)
(* are in lower case.                                                      *)
(***************************************************************************)
C8_LowerCaseNineColumns ==
    pokemon.exists =>
        /\ Len(pokemon.columns) = Cardinality(NineColumns)
        /\ Range(pokemon.columns) = NineColumns
        /\ \A i \in 1..Len(pokemon.rows) :
               /\ DOMAIN pokemon.rows[i] = NineColumns
               /\ IsLowerCase(pokemon.rows[i].name)
               /\ IsLowerCase(pokemon.rows[i].type_1)
               /\ IsLowerCase(pokemon.rows[i].type_2)
               /\ IsLowerCase(pokemon.rows[i].url_image)
               /\ IsLowerCase(pokemon.rows[i].evolves_from_species_id)

\* a stored row whose name, type and url the file writes with capitals
C8_Witness ==
    /\ loaded.exc = "none"
    /\ pokemon.rows # <<>>
    /\ \E i \in 1..DataRows(Csv) :
           /\ ~IsLowerCase(FieldRead(Csv, i, s_pokemon))
           /\ ~IsLowerCase(FieldRead(Csv, i, s_type_1))
           /\ ~IsLowerCase(FieldRead(Csv, i, s_url_image))


(***************************************************************************)
(* C9.  A load of a file whose header lacks a required column, or with a   *)
(* value that is not a number in a numeric column, raises; after a load    *)
(* that raised, the exception is the result of the call, the table exists  *)
(* with its nine columns and holds only a prefix, possibly empty, of the   *)
(* records of the file of that load; and a load of a valid CSV after a     *)
(* load that raised returns and leaves exactly the records of that CSV.    *)
(***************************************************************************)
C9_FailedLoad ==
    /\ (loaded.exc # "never" /\ ListedFailure[loaded.file] # "none")
       => Failed(loaded.exc)
    /\ Failed(loaded.exc)
       => /\ res.op = "create_table" => res.exc = loaded.exc
          /\ pokemon.exists
          /\ Len(pokemon.columns) = Cardinality(NineColumns)
          /\ Range(pokemon.columns) = NineColumns
          /\ IsPrefix(pokemon.rows, RecordsBeforeFailure[loaded.file])
    /\ (Failed(loaded.prev) /\ IsValid[loaded.file])
       => /\ loaded.exc = "none"
          /\ pokemon.rows = Records[loaded.file]

\* a valid CSV loaded after a load that raised on a bad number and had left
\* the rows that came before it
C9_Witness ==
    /\ res.op = "create_table"
    /\ loaded.prev = "ValueError"
    /\ loaded.had
    /\ loaded.exc = "none"
    /\ pokemon.rows # <<>>

(***************************************************************************)
(* C10 as claimed.  A load of a file with a complete header whose lines    *)
(* are complete rows or blank returns, and leaves one record for each line *)
(* that is not blank: blank lines are skipped.                             *)
(***************************************************************************)
C10_BlankLinesSkipped ==
    (loaded.exc # "never" /\ NonBlankRows[loaded.file] >= 0)
    => /\ loaded.exc = "none"
       /\ Len(pokemon.rows) = NonBlankRows[loaded.file]

=============================================================================
